---- MODULE Spec2Model ----
(***************************************************************************)
(* Caip10LinkHandler: the commit applier of a CAIP-10 link stream.         *)
(*                                                                         *)
(* StreamState values are JavaScript objects, so the model keeps a heap:   *)
(* `heap` holds the state objects the caller holds (a handle is an index), *)
(* `arrays` holds the log arrays the objects' `log` fields refer to.  An   *)
(* object spread ({...state}) allocates a new object that shares the log   *)
(* array of the object it was spread from; push and delete act on the      *)
(* object passed in.  The caller applies each commit to the state the last *)
(* successful call returned, and keeps the state it passed to that call.   *)
(*                                                                         *)
(*   heap, arrays  the objects                                             *)
(*   pc, call      the _applyAnchor call awaiting dag.get, if any          *)
(*   last          how the last call ended, and the prior state's value    *)
(*                 when it started                                         *)
(*   applied       the number of commits applied                           *)
(*   alone         no one but the applier has produced a state so far      *)
(*   ckpt          block timestamp of the last anchor applied, and the     *)
(*                 signature status it was applied to                      *)
(*   accepted      the commit applied last                                 *)
(***************************************************************************)
EXTENDS Integers, Sequences, FiniteSets, TLC

VARIABLES heap, arrays, pc, call, last, applied, alone, ckpt, accepted

vars == <<heap, arrays, pc, call, last, applied, alone, ckpt, accepted>>

(* ---------------------------- bounds ----------------------------------- *)

\* Largest number of commits applied to the stream (the longest log).
MaxLog == 4

\* Timestamps (proof timestamps and anchor block timestamps) are 0..MaxTime.
MaxTime == 2

Times == 0 .. MaxTime

(* ------------------------- optional values ----------------------------- *)

\* A property that is absent (undefined) or present with a value.
None == <<>>

Some(v) == <<v>>

IsSome(o) == o # <<>>

Get(o) == o[1]

\* The JavaScript value null of `content`.
Null == "null"

\* JavaScript truthiness of a content value (null and "" are falsy).
Truthy(c) == c # Null /\ c # ""

(* ------------------------------ strings -------------------------------- *)

\* Account strings are sequences of characters.
Lower(c) == CASE c = "A" -> "a" [] c = "B" -> "b" [] OTHER -> c

toLowerCase(s) == [i \in 1 .. Len(s) |-> Lower(s[i])]

\* Index of the first "@" of s, or 0.
RECURSIVE IndexOfAt(_, _)
IndexOfAt(s, i) ==
    IF i > Len(s) THEN 0 ELSE IF s[i] = "@" THEN i ELSE IndexOfAt(s, i + 1)

\* s.split('@'): the segments of s between the "@" characters.
RECURSIVE split(_)
split(s) ==
    LET k == IndexOfAt(s, 1) IN
    IF k = 0 THEN <<s>>
    ELSE <<SubSeq(s, 1, k - 1)>> \o split(SubSeq(s, k + 1, Len(s)))

\* let [address, chainId] = account.split('@'); [address, chainId].join('@')
\* A missing chainId is undefined and joins as the empty string.
addressCaip10(account) ==
    LET parts == split(account)
        address == parts[1]
        chainId == IF Len(parts) >= 2 THEN parts[2] ELSE <<>>
    IN address \o <<"@">> \o chainId

(* ------------------------------ inputs --------------------------------- *)

\* The controller of the stream, and proof accounts that name it or do not.
Controller == <<"a", "B", "@", "1">>
AcctSwapped == <<"A", "b", "@", "1">>
AcctOther == <<"b", "B", "@", "1">>
AcctExtra == <<"a", "B", "@", "1", "@", "x">>
AcctBare  == <<"a", "B">>

\* Genesis headers: the controllers list may be missing, empty, single or double.
Headers ==
    { [controllers |-> c] :
        c \in {None, Some(<<>>), Some(<<Controller>>), Some(<<Controller, AcctOther>>)} }

Payload(sig, account, address, timestamp, did) ==
    [sig |-> sig, account |-> account, address |-> address, timestamp |-> timestamp, did |-> did]

\* Link-proof payloads carried in commit.data.  `sig` decides what the
\* verifier does with the payload: every timestamp with two DIDs, the empty
\* DID, and the forms the account can take.
GoodPayloads ==
    { Payload("good", Some(Controller), None, t, d) : t \in Times, d \in {"did:1", "did:2"} }
        \cup { Payload("good", Some(Controller), None, MaxTime, "") }

AccountForms ==
    { <<Some(AcctSwapped), None>>, <<Some(AcctOther), None>>, <<Some(AcctExtra), None>>,
      <<Some(AcctBare), None>>, <<None, Some(AcctSwapped)>> }

OddPayloads == { Payload("good", p[1], p[2], MaxTime, "did:1") : p \in AccountForms }

BadPayloads ==
    { Payload(s, Some(Controller), None, MaxTime, "did:1") : s \in {"malformed", "invalid"} }

Payloads == GoodPayloads \cup OddPayloads \cup BadPayloads

\* Anchor proofs are content-addressed: the reference names the proof.
ProofRefs == Times

GenesisCommits ==
    { [data |-> d, header |-> h, proof |-> None] :
        d \in {None, Some(Payload("good", Some(Controller), None, 0, "did:1"))}, h \in Headers }

SignedCommits == { [data |-> Some(p), header |-> None, proof |-> None] : p \in Payloads }

\* Anchor commits carry a proof reference and no link-proof payload.
AnchorCommits == { [data |-> None, header |-> None, proof |-> Some(r)] : r \in ProofRefs }

(* --------------------------- collaborators ----------------------------- *)

\* validateLink(commit.data): throws, returns null, or returns the proof.
validateLink(data) ==
    IF ~IsSome(data) \/ Get(data).sig = "malformed" THEN [threw |-> TRUE, value |-> None]
    ELSE IF Get(data).sig = "invalid" THEN [threw |-> FALSE, value |-> None]
    ELSE [threw |-> FALSE,
          value |-> Some([account |-> Get(data).account, address |-> Get(data).address,
                          timestamp |-> Get(data).timestamp, did |-> Get(data).did])]

\* The value context.ipfs.dag.get returns for a proof reference when it returns.
dagGetValue(ref) == [blockTimestamp |-> ref]

(* ------------------------------ errors --------------------------------- *)

OK == "ok"
ErrGenesisData == "Caip10Link genesis commit cannot have data"
ErrControllers == "Exactly one controller must be specified"
ErrValidating  == "Error while validating link proof for caip10-link signed commit"
ErrInvalidProof == "Invalid proof for signed commit"
ErrTooOld      == "Invalid commit, proof timestamp too old"
ErrAddress     == "Address doesn't match stream controller"
ErrFetch       == "anchor proof fetch failed"
ErrType        == "TypeError"

(* --------------------------- state objects ----------------------------- *)

\* The value of the state object behind handle h: its fields, with the log
\* array it refers to read out.
Value(h) == [heap[h] EXCEPT !.log = arrays[heap[h].log]]

\* The caller keeps the state object it passed to the last call that returned
\* and the object that call returned; the latter is the state it applies the
\* next commit to.
cur == Len(heap)

\* The entry written over the last one instead of being appended.
pushLogOverwrite(arr, cid, type) ==
    IF arr = <<>> THEN <<[cid |-> cid, type |-> type]>>
    ELSE [arr EXCEPT ![Len(arr)] = [cid |-> cid, type |-> type]]

\* state.log.push({ cid, type })
pushLog(arr, cid, type) == Append(arr, [cid |-> cid, type |-> type])

(* ----------------------------- _applyGenesis --------------------------- *)

\* The controller check with "at least one" for "exactly one".
GenesisErrorSomeController(commit) ==
    IF IsSome(commit.data) THEN ErrGenesisData
    ELSE IF ~(IsSome(commit.header.controllers) /\ Len(Get(commit.header.controllers)) >= 1)
    THEN ErrControllers
    ELSE OK

\* The throws of _applyGenesis (lines 57-59 and 74-76), or OK.
GenesisError(commit) ==
    IF IsSome(commit.data) THEN ErrGenesisData
    ELSE IF ~(IsSome(commit.header.controllers) /\ Len(Get(commit.header.controllers)) = 1)
    THEN ErrControllers
    ELSE OK

\* The state object of lines 62-72; logRef is the array allocated for `log`.
GenesisState(commit, logRef) ==
    [ content |-> Null,
      next |-> Some([content |-> Null, metadata |-> None]),
      metadata |-> commit.header,
      signature |-> "GENESIS",
      anchorStatus |-> "NOT_REQUESTED",
      anchorProof |-> None,
      anchorScheduledFor |-> None,
      log |-> logRef ]

(* ----------------------------- _applySigned ---------------------------- *)

\* The check made on the first signed commit as well.
TimestampCheckFromGenesis(state, validProof) ==
    IF state.anchorStatus = "ANCHORED"
    THEN IF ~IsSome(state.anchorProof) THEN ErrType
         ELSE IF validProof.timestamp < Get(state.anchorProof).blockTimestamp THEN ErrTooOld
         ELSE OK
    ELSE IF ~IsSome(state.next) THEN ErrType
         ELSE IF ~IsSome(Get(state.next).metadata) THEN ErrType
         ELSE IF validProof.timestamp < Get(Get(state.next).metadata).lastUpdate THEN ErrTooOld
         ELSE OK

\* The check with <= against the anchor's block timestamp.
TimestampCheckAnchorInclusive(state, validProof) ==
    IF state.signature = "GENESIS" THEN OK
    ELSE IF state.anchorStatus = "ANCHORED"
    THEN IF ~IsSome(state.anchorProof) THEN ErrType
         ELSE IF validProof.timestamp <= Get(state.anchorProof).blockTimestamp THEN ErrTooOld
         ELSE OK
    ELSE IF ~IsSome(state.next) THEN ErrType
         ELSE IF ~IsSome(Get(state.next).metadata) THEN ErrType
         ELSE IF validProof.timestamp < Get(Get(state.next).metadata).lastUpdate THEN ErrTooOld
         ELSE OK

\* The check without the comparison against the anchor's block timestamp.
TimestampCheckPendingOnly(state, validProof) ==
    IF state.signature = "GENESIS" THEN OK
    ELSE IF state.anchorStatus = "ANCHORED" THEN OK
    ELSE IF ~IsSome(state.next) THEN ErrType
         ELSE IF ~IsSome(Get(state.next).metadata) THEN ErrType
         ELSE IF validProof.timestamp < Get(Get(state.next).metadata).lastUpdate THEN ErrTooOld
         ELSE OK

\* The check with <= against the pending update's lastUpdate.
TimestampCheckPendingInclusive(state, validProof) ==
    IF state.signature = "GENESIS" THEN OK
    ELSE IF state.anchorStatus = "ANCHORED"
    THEN IF ~IsSome(state.anchorProof) THEN ErrType
         ELSE IF validProof.timestamp < Get(state.anchorProof).blockTimestamp THEN ErrTooOld
         ELSE OK
    ELSE IF ~IsSome(state.next) THEN ErrType
         ELSE IF ~IsSome(Get(state.next).metadata) THEN ErrType
         ELSE IF validProof.timestamp <= Get(Get(state.next).metadata).lastUpdate THEN ErrTooOld
         ELSE OK

\* The timestamp check of lines 100-110: OK, ErrTooOld, or a TypeError when
\* the field it reads is absent.
TimestampCheck(state, validProof) ==
    IF state.signature = "GENESIS" THEN OK
    ELSE IF state.anchorStatus = "ANCHORED"
    THEN IF ~IsSome(state.anchorProof) THEN ErrType
         ELSE IF validProof.timestamp < Get(state.anchorProof).blockTimestamp THEN ErrTooOld
         ELSE OK
    ELSE IF ~IsSome(state.next) THEN ErrType
         ELSE IF ~IsSome(Get(state.next).metadata) THEN ErrType
         ELSE IF validProof.timestamp < Get(Get(state.next).metadata).lastUpdate THEN ErrTooOld
         ELSE OK

\* validProof.account || validProof.address
proofAccount(validProof) ==
    IF IsSome(validProof.account) /\ Get(validProof.account) # <<>>
    THEN validProof.account
    ELSE validProof.address

\* The controller check left out.
ControllerCheckSkipped(state, validProof) ==
    IF ~IsSome(proofAccount(validProof)) THEN ErrType ELSE OK

\* The controller check without toLowerCase.
ControllerCheckCaseSensitive(state, validProof) ==
    LET account == proofAccount(validProof) IN
    IF ~IsSome(account) THEN ErrType
    ELSE IF addressCaip10(Get(account)) # Get(state.metadata.controllers)[1]
    THEN ErrAddress
    ELSE OK

\* The controller check of lines 113-119.
ControllerCheck(state, validProof) ==
    LET account == proofAccount(validProof) IN
    IF ~IsSome(account) THEN ErrType
    ELSE IF toLowerCase(addressCaip10(Get(account)))
             # toLowerCase(Get(state.metadata.controllers)[1])
    THEN ErrAddress
    ELSE OK

\* The error _applySigned throws for this state and commit, or OK.
SignedError(state, commit) ==
    LET v == validateLink(commit.data) IN
    IF v.threw THEN ErrValidating
    ELSE IF ~IsSome(v.value) THEN ErrInvalidProof
    ELSE IF TimestampCheck(state, Get(v.value)) # OK THEN TimestampCheck(state, Get(v.value))
    ELSE ControllerCheck(state, Get(v.value))

\* The returned object without the anchor proof of the prior state.
SignedStateDropsProof(state, validProof) ==
    [ state EXCEPT
        !.signature = "SIGNED",
        !.anchorStatus = "NOT_REQUESTED",
        !.anchorProof = None,
        !.next = Some([ content |-> validProof.did,
                        metadata |-> Some([ controllers |-> state.metadata.controllers,
                                            lastUpdate |-> validProof.timestamp ]) ]) ]

\* The returned object with the anchor status of the prior state.
SignedStateKeepsAnchorStatus(state, validProof) ==
    [ state EXCEPT
        !.signature = "SIGNED",
        !.next = Some([ content |-> validProof.did,
                        metadata |-> Some([ controllers |-> state.metadata.controllers,
                                            lastUpdate |-> validProof.timestamp ]) ]) ]

\* The returned object with a pending update that has no metadata.
SignedStateNoMetadata(state, validProof) ==
    [ state EXCEPT
        !.signature = "SIGNED",
        !.anchorStatus = "NOT_REQUESTED",
        !.next = Some([content |-> validProof.did, metadata |-> None]) ]

\* The returned object with the DID written to content as well.
SignedStateCommitsContent(state, validProof) ==
    [ state EXCEPT
        !.content = validProof.did,
        !.signature = "SIGNED",
        !.anchorStatus = "NOT_REQUESTED",
        !.next = Some([ content |-> validProof.did,
                        metadata |-> Some([ controllers |-> state.metadata.controllers,
                                            lastUpdate |-> validProof.timestamp ]) ]) ]

\* The object returned at lines 121-132.
SignedState(state, validProof) ==
    [ state EXCEPT
        !.signature = "SIGNED",
        !.anchorStatus = "NOT_REQUESTED",
        !.next = Some([ content |-> validProof.did,
                        metadata |-> Some([ controllers |-> state.metadata.controllers,
                                            lastUpdate |-> validProof.timestamp ]) ]) ]

(* ----------------------------- _applyAnchor ---------------------------- *)

\* The content without the promotion of the pending update.
AnchorContentKept(state) == state.content

\* let content = state.content; if (state.next?.content) content = state.next.content
AnchorContent(state) ==
    IF IsSome(state.next) /\ Truthy(Get(state.next).content)
    THEN Get(state.next).content
    ELSE state.content

\* Only the scheduling marker deleted.
AnchorDeletesMarkerOnly(state) == [state EXCEPT !.anchorScheduledFor = None]

\* delete state.next; delete state.anchorScheduledFor
AnchorDeletes(state) == [state EXCEPT !.next = None, !.anchorScheduledFor = None]

\* The returned object without the fetched proof.
AnchorStateWithoutProof(state, content, proof) ==
    [ state EXCEPT
        !.content = content,
        !.anchorStatus = "ANCHORED" ]

\* The object returned at lines 156-161, from the state as the deletes left it.
AnchorState(state, content, proof) ==
    [ state EXCEPT
        !.content = content,
        !.anchorStatus = "ANCHORED",
        !.anchorProof = Some(proof) ]


(* ------------------------------ the caller ------------------------------ *)

NoCall == [commit |-> None, cid |-> 0, before |-> None]

NoOp ==
    [ op |-> "none", outcome |-> OK, prior |-> 0, before |-> None,
      commit |-> None, cid |-> 0, again |-> None, after |-> None ]

\* The reference of the commit being applied: the n-th commit of the stream
\* has reference n.
CidNow == IF arrays = <<>> THEN 1 ELSE Len(arrays[1]) + 1

\* The previous call, when this call repeats it after it threw: same
\* operation, same commit and reference, same prior state object.
Again(op, commit, cid) ==
    IF /\ last.op = op /\ last.outcome # OK /\ last.prior = cur
       /\ last.commit = Some(commit) /\ last.cid = cid
    THEN Some([outcome |-> last.outcome, before |-> last.before])
    ELSE None

\* The record of a call on the current state that ended with `outcome`; prior
\* is the handle, after the call, of the state object that was passed in, and
\* after is the commit that was applied last before the call.
Ended(op, commit, cid, outcome) ==
    [ op |-> op, outcome |-> outcome,
      prior |-> IF cur > 0 /\ outcome = OK THEN 1 ELSE cur,
      before |-> IF cur = 0 THEN None ELSE Some(Value(cur)),
      commit |-> Some(commit), cid |-> cid, again |-> Again(op, commit, cid),
      after |-> accepted ]

\* The objects the caller holds after a call on `state` returned `result`.
Held(state, result) == <<state, result>>

(* -------------------------------- actions ------------------------------- *)

Init ==
    /\ heap = <<>>
    /\ arrays = <<>>
    /\ pc = "idle"
    /\ call = NoCall
    /\ last = NoOp
    /\ applied = 0
    /\ alone = TRUE
    /\ ckpt = None
    /\ accepted = None

\* applyCommit(commit, cid, context) with no prior state: _applyGenesis.
ApplyGenesis(commit, cid) ==
    /\ pc = "idle"
    /\ heap = <<>>
    /\ last' = Ended("genesis", commit, cid, GenesisError(commit))
    /\ IF GenesisError(commit) # OK
       THEN UNCHANGED <<heap, arrays, applied, accepted>>
       ELSE /\ arrays' = <<pushLog(<<>>, cid, "GENESIS")>>
            /\ heap' = <<GenesisState(commit, 1)>>
            /\ applied' = applied + 1
            /\ accepted' = Some(commit)
    /\ UNCHANGED <<pc, call, alone, ckpt>>

\* The push placed before the controller check.
SignedLogBeforeControllerCheck(state, commit, arr, cid) ==
    IF SignedError(state, commit) \in {OK, ErrAddress} THEN pushLog(arr, cid, "SIGNED") ELSE arr

\* The log array after _applySigned: line 120 is reached when nothing threw.
SignedLog(state, commit, arr, cid) ==
    IF SignedError(state, commit) = OK THEN pushLog(arr, cid, "SIGNED") ELSE arr

\* applyCommit(commit, cid, context, state) for a commit without a proof
\* reference: _applySigned on the current state object.
ApplySigned(commit, cid) ==
    /\ pc = "idle"
    /\ cur > 0
    /\ SignedError(heap[cur], commit) = OK => Len(arrays[1]) < MaxLog
    /\ last' = Ended("signed", commit, cid, SignedError(heap[cur], commit))
    /\ arrays' = [arrays EXCEPT ![heap[cur].log] = SignedLog(heap[cur], commit, @, cid)]
    /\ IF SignedError(heap[cur], commit) # OK
       THEN UNCHANGED <<heap, applied, accepted>>
       ELSE /\ heap' = Held(heap[cur],
                            SignedState(heap[cur], Get(validateLink(commit.data).value)))
            /\ applied' = applied + 1
            /\ accepted' = Some(commit)
    /\ UNCHANGED <<pc, call, alone, ckpt>>

\* applyCommit for a commit with a proof reference: _applyAnchor up to the
\* await of context.ipfs.dag.get.
AnchorStart(commit, cid) ==
    /\ pc = "idle"
    /\ cur > 0
    /\ Len(arrays[1]) < MaxLog
    /\ pc' = "fetching"
    /\ call' = [commit |-> Some(commit), cid |-> cid, before |-> Some(Value(cur))]
    /\ UNCHANGED <<heap, arrays, last, applied, alone, ckpt, accepted>>

\* The push placed before the await: a failed fetch leaves the entry behind.
AnchorFetchThrowsAfterPush ==
    /\ pc = "fetching"
    /\ last' = [Ended("anchor", Get(call.commit), call.cid, ErrFetch) EXCEPT !.before = call.before]
    /\ arrays' = [arrays EXCEPT ![heap[cur].log] = pushLog(@, call.cid, "ANCHOR")]
    /\ pc' = "idle"
    /\ call' = NoCall
    /\ UNCHANGED <<heap, applied, alone, ckpt, accepted>>

\* dag.get rejects (timeout, lookup failure, cancellation): _applyAnchor throws.
AnchorFetchThrows ==
    /\ pc = "fetching"
    /\ last' = [Ended("anchor", Get(call.commit), call.cid, ErrFetch) EXCEPT !.before = call.before]
    /\ pc' = "idle"
    /\ call' = NoCall
    /\ UNCHANGED <<heap, arrays, applied, alone, ckpt, accepted>>

\* dag.get resolves: lines 147-161.
AnchorFetchReturns ==
    /\ pc = "fetching"
    /\ LET state == heap[cur]
           proof == dagGetValue(Get(Get(call.commit).proof))
           content == AnchorContent(state)
       IN /\ arrays' = [arrays EXCEPT ![state.log] = pushLog(@, call.cid, "ANCHOR")]
          /\ heap' = Held(AnchorDeletes(state),
                          AnchorState(AnchorDeletes(state), content, proof))
          /\ ckpt' = Some([blockTimestamp |-> proof.blockTimestamp, signature |-> state.signature])
    /\ last' = [Ended("anchor", Get(call.commit), call.cid, OK) EXCEPT !.before = call.before]
    /\ applied' = applied + 1
    /\ accepted' = call.commit
    /\ pc' = "idle"
    /\ call' = NoCall
    /\ UNCHANGED alone

\* The anchoring service schedules an anchor for the current state: a new state
\* object with anchorStatus PENDING and the scheduling marker set.
RequestAnchor ==
    /\ pc = "idle"
    /\ cur > 0
    /\ heap[cur].anchorStatus = "NOT_REQUESTED"
    /\ heap' = Held(heap[cur], [heap[cur] EXCEPT !.anchorStatus = "PENDING",
                                                 !.anchorScheduledFor = Some(MaxTime)])
    /\ alone' = FALSE
    /\ last' = [NoOp EXCEPT !.op = "request", !.prior = 1, !.before = Some(Value(cur))]
    /\ UNCHANGED <<arrays, pc, call, applied, ckpt, accepted>>

Genesis == \E commit \in GenesisCommits : ApplyGenesis(commit, CidNow)

Signed == \E commit \in SignedCommits : ApplySigned(commit, CidNow)

Anchor == \E commit \in AnchorCommits : AnchorStart(commit, CidNow)

Next ==
    \/ Genesis
    \/ Signed
    \/ Anchor
    \/ AnchorFetchThrows
    \/ AnchorFetchReturns
    \/ RequestAnchor

Spec == Init /\ [][Next]_vars

(* ------------------------- what the claims read ------------------------- *)

\* The last call was an applyCommit call that threw / that returned.
Rejected == last.op \in {"genesis", "signed", "anchor"} /\ last.outcome # OK

Accepted(op) == last.op = op /\ last.outcome = OK

\* The state object passed to the last call has now the value it had before it.
PriorUnchanged == last.prior > 0 => Some(Value(last.prior)) = last.before

\* The prior state value of the last call, and the proof its payload verifies to.
Before == Get(last.before)

LastProof == Get(validateLink(Get(last.commit).data).value)

LastHasProof == last.op = "signed" /\ IsSome(validateLink(Get(last.commit).data).value)

LogNow == arrays[1]

(* --------------------------------- C1 ----------------------------------- *)

\* C1 as stated: a rejected commit leaves the prior state exactly as it was,
\* and every call that repeats a rejected call on the same prior state ends
\* with the same error again.
C1_RejectionRepeats ==
    /\ Rejected => PriorUnchanged
    /\ IsSome(last.again) =>
          /\ last.outcome = Get(last.again).outcome
          /\ last.before = Get(last.again).before

\* C1 amended: a rejected commit leaves the prior state (log, content, pending
\* update, metadata, signature status, anchor status, anchor proof) exactly as
\* it was; a call that repeats a rejected call on the same prior state finds
\* that state unchanged and ends with the same error again, unless it is an
\* anchor commit whose proof fetch failed before and succeeds now.
C1_RejectionLeavesState ==
    /\ Rejected => PriorUnchanged
    /\ IsSome(last.again) =>
          /\ last.before = Get(last.again).before
          /\ ~Accepted("anchor") => last.outcome = Get(last.again).outcome

\* A signed commit rejected for its controller, twice in a row, on a state that
\* already holds a signed update.
C1_Witness ==
    /\ last.op = "signed" /\ last.outcome = ErrAddress
    /\ IsSome(last.again) /\ Get(last.again).outcome = ErrAddress
    /\ Before.signature = "SIGNED"

(* --------------------------------- C2 ----------------------------------- *)

\* C2 as stated: after a successful signed or anchor application the prior
\* state the caller passed in still has the log, pending update and
\* anchor-scheduling marker it had before the call.
C2_PriorKeptOnSuccess ==
    (Accepted("signed") \/ Accepted("anchor")) =>
        /\ Value(last.prior).log = Before.log
        /\ Value(last.prior).next = Before.next
        /\ Value(last.prior).anchorScheduledFor = Before.anchorScheduledFor

(* --------------------------------- C3 ----------------------------------- *)

KindOf(op) == CASE op = "genesis" -> "GENESIS" [] op = "signed" -> "SIGNED" [] op = "anchor" -> "ANCHOR"

\* C3: along the chain the log is as long as the number of commits applied,
\* starts with the GENESIS entry, grows by exactly the entry {commitRef, kind}
\* of each applied commit, and is otherwise left as it was.
C3_LogGrowsByOne ==
    /\ cur = 0 => applied = 0
    /\ cur > 0 =>
          /\ Len(Value(cur).log) = applied
          /\ Value(cur).log[1].type = "GENESIS"
    /\ Accepted("genesis") => Value(cur).log = <<[cid |-> last.cid, type |-> "GENESIS"]>>
    /\ (Accepted("signed") \/ Accepted("anchor")) =>
          Value(cur).log = Append(Before.log, [cid |-> last.cid, type |-> KindOf(last.op)])
    /\ (Rejected \/ last.op = "request") /\ cur > 0 => Value(cur).log = Before.log

\* A signed commit applied after an anchor commit: four entries.
C3_Witness ==
    /\ Accepted("signed")
    /\ Len(LogNow) = 4
    /\ LogNow[3].type = "ANCHOR"

(* --------------------------------- C4 ----------------------------------- *)

\* The last call applied a signed commit with a valid proof and a matching
\* controller to an ANCHORED state.
SignedOnAnchored ==
    /\ LastHasProof
    /\ Before.anchorStatus = "ANCHORED"
    /\ ControllerCheck(Before, LastProof) = OK

AnchorT == Get(Before.anchorProof).blockTimestamp

\* C4 as stated: on an ANCHORED state with block timestamp T, a proof
\* timestamp < T always fails as stale and one >= T succeeds.
C4_StaleAgainstAnchor ==
    SignedOnAnchored =>
        /\ LastProof.timestamp < AnchorT => last.outcome = ErrTooOld
        /\ LastProof.timestamp >= AnchorT => last.outcome = OK

\* C4 amended: on an ANCHORED state with block timestamp T whose
\* signatureStatus is SIGNED, a proof timestamp < T fails as stale and one >= T
\* (equality included) succeeds; when the signatureStatus is still GENESIS the
\* commit succeeds whatever its timestamp.
C4_StaleAgainstAnchorOnceSigned ==
    SignedOnAnchored =>
        /\ LastProof.timestamp < AnchorT /\ Before.signature # "GENESIS" => last.outcome = ErrTooOld
        /\ LastProof.timestamp >= AnchorT \/ Before.signature = "GENESIS" => last.outcome = OK

\* A signed commit accepted on a SIGNED, ANCHORED state at exactly T > 0.
C4_Witness ==
    /\ SignedOnAnchored
    /\ Before.signature = "SIGNED"
    /\ AnchorT > 0
    /\ LastProof.timestamp = AnchorT
    /\ last.outcome = OK

(* --------------------------------- C5 ----------------------------------- *)

SignedOnPending ==
    /\ LastHasProof
    /\ Before.signature = "SIGNED"
    /\ Before.anchorStatus # "ANCHORED"
    /\ IsSome(Before.next)
    /\ IsSome(Get(Before.next).metadata)

PendingL == Get(Get(Before.next).metadata).lastUpdate

\* C6: on a SIGNED, not ANCHORED state with pending lastUpdate L, a proof
\* timestamp < L fails as stale; one >= L (equality included) with a matching
\* controller succeeds and becomes the pending lastUpdate, which therefore
\* never decreases over consecutive signed commits.
C6_StaleAgainstPending ==
    SignedOnPending =>
        /\ LastProof.timestamp < PendingL => last.outcome = ErrTooOld
        /\ LastProof.timestamp >= PendingL /\ ControllerCheck(Before, LastProof) = OK =>
              /\ last.outcome = OK
              /\ Get(Get(Value(cur).next).metadata).lastUpdate = LastProof.timestamp
              /\ Get(Get(Value(cur).next).metadata).lastUpdate >= PendingL

\* A signed commit accepted at exactly the pending lastUpdate L > 0.
C6_Witness ==
    /\ SignedOnPending
    /\ last.outcome = OK
    /\ PendingL > 0
    /\ LastProof.timestamp = PendingL

(* --------------------------------- C7 ----------------------------------- *)

\* C7: content is null after genesis, a successful signed commit returns the
\* prior content and puts the DID into next.content, and no step other than a
\* successful anchor application changes content.
C7_ContentOnlyByAnchor ==
    /\ Accepted("genesis") => Value(cur).content = Null
    /\ Accepted("signed") =>
          /\ Value(cur).content = Before.content
          /\ Get(Value(cur).next).content = LastProof.did
    /\ cur > 0 /\ last.prior > 0 /\ ~Accepted("anchor") => Value(cur).content = Before.content

\* A signed commit with a new DID accepted on a state with committed content.
C7_Witness ==
    /\ Accepted("signed")
    /\ Truthy(Before.content)
    /\ Truthy(LastProof.did)
    /\ LastProof.did # Before.content

(* --------------------------------- C8 ----------------------------------- *)

LastAnchorProof == dagGetValue(Get(Get(last.commit).proof))

\* The prior state of the last call held a pending update with content.
HadPendingContent == IsSome(Before.next) /\ Truthy(Get(Before.next).content)

\* C8: an anchor commit whose fetch succeeds is applied whatever the state and
\* the commit carry: content becomes the pending content when there is one and
\* stays as it was otherwise, and the result is ANCHORED with the fetched
\* proof, no pending update and no scheduling marker.
C8_AnchorPromotes ==
    /\ last.op = "anchor" => last.outcome \in {OK, ErrFetch}
    /\ Accepted("anchor") =>
          /\ HadPendingContent => Value(cur).content = Get(Before.next).content
          /\ ~HadPendingContent => Value(cur).content = Before.content
          /\ Value(cur).anchorStatus = "ANCHORED"
          /\ Value(cur).anchorProof = Some(LastAnchorProof)
          /\ ~IsSome(Value(cur).next)
          /\ ~IsSome(Value(cur).anchorScheduledFor)

\* An anchor applied to a scheduled state with pending content not yet
\* committed, with a block timestamp before the pending update's.
C8_Witness ==
    /\ Accepted("anchor")
    /\ HadPendingContent
    /\ Get(Before.next).content # Before.content
    /\ IsSome(Before.anchorScheduledFor)
    /\ LastAnchorProof.blockTimestamp < Get(Get(Before.next).metadata).lastUpdate

(* --------------------------------- C9 ----------------------------------- *)

\* C9: the current state has no pending update exactly when the last log
\* entry is an ANCHOR entry; genesis and signed commits leave one present.
C9_PendingClearedByAnchor ==
    /\ cur > 0 => (~IsSome(Value(cur).next) <=> LogNow[Len(LogNow)].type = "ANCHOR")
    /\ Accepted("genesis") \/ Accepted("signed") => IsSome(Value(cur).next)

\* An anchor just cleared the pending update of a signed commit.
C9_Witness ==
    /\ Accepted("anchor")
    /\ IsSome(Before.next) /\ Before.signature = "SIGNED"
    /\ ~IsSome(Value(cur).next)

(* --------------------------------- C10 ---------------------------------- *)

\* The state a successful anchor application returns for prior state value v.
AnchoredFrom(v, commit, cid) ==
    [ AnchorState(AnchorDeletes(v), AnchorContent(v), dagGetValue(Get(commit.proof)))
        EXCEPT !.log = pushLog(v.log, cid, "ANCHOR") ]

\* C10: while the fetch is in flight and after it failed the prior state has
\* every field it had when the call started, and a retry whose fetch succeeds
\* returns the state a success of the first attempt would have returned.
C10_FetchFailureIsClean ==
    /\ pc = "fetching" => Some(Value(cur)) = call.before
    /\ last.op = "anchor" /\ last.outcome = ErrFetch => PriorUnchanged
    /\ Accepted("anchor") /\ IsSome(last.again) =>
          Value(cur) = AnchoredFrom(Get(Get(last.again).before), Get(last.commit), last.cid)

\* A retry succeeded on a state with a pending signed update.
C10_Witness ==
    /\ Accepted("anchor")
    /\ IsSome(last.again) /\ Get(last.again).outcome = ErrFetch
    /\ HadPendingContent

(* --------------------------------- C11 ---------------------------------- *)

\* The genesis commit of the last call has no payload and one controller.
WellFormedGenesis ==
    /\ ~IsSome(Get(last.commit).data)
    /\ IsSome(Get(last.commit).header.controllers)
    /\ Len(Get(Get(last.commit).header.controllers)) = 1

\* C11: applyCommit without a prior state succeeds exactly for a commit with
\* no content payload and one controller; it then returns the GENESIS,
\* NOT_REQUESTED state with null content, empty pending content and the log
\* [{commitRef, GENESIS}]; otherwise it throws and no state exists.
C11_GenesisExactlyWellFormed ==
    last.op = "genesis" =>
        /\ last.outcome = OK <=> WellFormedGenesis
        /\ last.outcome = OK =>
              /\ cur = 1
              /\ Value(1).signature = "GENESIS"
              /\ Value(1).anchorStatus = "NOT_REQUESTED"
              /\ Value(1).content = Null
              /\ IsSome(Value(1).next) /\ Get(Value(1).next).content = Null
              /\ Value(1).log = <<[cid |-> last.cid, type |-> "GENESIS"]>>
        /\ last.outcome # OK => heap = <<>> /\ arrays = <<>>

\* A genesis commit was applied.
C11_Witness == Accepted("genesis") /\ cur = 1 /\ WellFormedGenesis

(* --------------------------------- C12 ---------------------------------- *)

SameIgnoringCase(a, b) ==
    /\ Len(a) = Len(b)
    /\ \A i \in 1 .. Len(a) : Lower(a[i]) = Lower(b[i])

\* The chain-qualified account of the last call's proof: address@chainId of
\* the account field, or of the address field when there is no account.
QualifiedAccount ==
    IF IsSome(LastProof.account)
    THEN addressCaip10(Get(LastProof.account))
    ELSE addressCaip10(Get(LastProof.address))

NamesController == SameIgnoringCase(QualifiedAccount, Get(Before.metadata.controllers)[1])

\* C12: a signed commit whose proof passed the timestamp check is accepted
\* exactly when its chain-qualified account is the controller up to case;
\* otherwise it fails with the controller-mismatch error and the state is the
\* one before the call.
C12_ControllerUpToCase ==
    LastHasProof /\ last.outcome # ErrTooOld =>
        /\ NamesController <=> last.outcome = OK
        /\ ~NamesController => last.outcome = ErrAddress /\ PriorUnchanged

\* An account that differs from the controller in case only was accepted.
C12_Witness ==
    /\ Accepted("signed")
    /\ LastProof.account = Some(AcctSwapped)
    /\ AcctSwapped # Get(Before.metadata.controllers)[1]

(* --------------------------------- C13 ---------------------------------- *)

Kinds(log) == [i \in 1 .. Len(log) |-> log[i].type]

\* The last call applied an anchor commit as the third commit of the stream,
\* right after a signed commit.
GenesisSignedAnchor ==
    /\ Accepted("anchor")
    /\ applied = 3
    /\ IsSome(Get(last.after).data)

SignedDid == Get(Get(last.after).data).did

\* What C13 says of the end state apart from its content.
AnchoredAfterThree ==
    /\ Value(cur).anchorStatus = "ANCHORED"
    /\ Value(cur).anchorProof = Some(LastAnchorProof)
    /\ ~IsSome(Value(cur).next)
    /\ Kinds(Value(cur).log) = <<"GENESIS", "SIGNED", "ANCHOR">>

\* C13 as stated: genesis, signed commit with DID d, anchor commit end with
\* content d, ANCHORED, the fetched proof, no pending update and the log
\* GENESIS, SIGNED, ANCHOR, for every DID d.
C13_EndToEnd ==
    GenesisSignedAnchor => Value(cur).content = SignedDid /\ AnchoredAfterThree

\* C13 amended: the same for every non-empty DID d; for the empty string the
\* content stays null, the rest being as stated.
C13_EndToEndNonEmptyDid ==
    GenesisSignedAnchor =>
        /\ Truthy(SignedDid) => Value(cur).content = SignedDid
        /\ ~Truthy(SignedDid) => Value(cur).content = Null
        /\ AnchoredAfterThree

\* The scenario of the spec: the anchor's block timestamp is later than the
\* proof's timestamp.
C13_Witness ==
    /\ GenesisSignedAnchor
    /\ SignedDid = "did:1"
    /\ Value(cur).content = "did:1"
    /\ LastAnchorProof.blockTimestamp > Get(Get(last.after).data).timestamp

(* --------------------------------- C15 ---------------------------------- *)

\* C15: the state has exactly one controller, the one of the genesis header,
\* which no later step changes, and a signed commit is applied (a SIGNED entry
\* appended) only when its proof's account names that controller up to case.
C15_OneControllerForGood ==
    /\ cur > 0 => Len(Get(Value(cur).metadata.controllers)) = 1
    /\ Accepted("genesis") => Value(cur).metadata = Get(last.commit).header
    /\ cur > 0 /\ last.prior > 0 => Value(cur).metadata = Before.metadata
    /\ Accepted("signed") =>
          /\ NamesController
          /\ Value(cur).log[Len(Value(cur).log)].type = "SIGNED"
    /\ last.op = "signed" /\ last.outcome # OK => Value(cur).log = Before.log

\* A signed commit was applied after an anchor, the controller still in place.
C15_Witness ==
    /\ Accepted("signed")
    /\ Before.anchorStatus = "ANCHORED"
    /\ Value(cur).metadata.controllers = Some(<<Controller>>)

(* --------------------------------- C16 ---------------------------------- *)

\* C16: on a state whose signatureStatus is GENESIS a signed commit with a
\* valid proof that names the controller is accepted whatever its timestamp.
C16_FirstSignedUnchecked ==
    LastHasProof /\ Before.signature = "GENESIS" /\ NamesController => last.outcome = OK

\* The first signed commit accepted on an ANCHORED state with a timestamp
\* earlier than the anchor's block timestamp.
C16_Witness ==
    /\ Accepted("signed")
    /\ Before.signature = "GENESIS"
    /\ Before.anchorStatus = "ANCHORED"
    /\ LastProof.timestamp < Get(Before.anchorProof).blockTimestamp

(* --------------------------------- C17 ---------------------------------- *)

HasAnchorEntry(log) == \E i \in 1 .. Len(log) : log[i].type = "ANCHOR"

\* C17: anchorProof is present exactly when the log has an ANCHOR entry, it
\* is the proof of the anchor commit applied last, and a signed commit leaves
\* it as it was while setting anchorStatus to NOT_REQUESTED.
C17_ProofOnceAnchored ==
    /\ cur > 0 =>
          /\ IsSome(Value(cur).anchorProof) <=> HasAnchorEntry(Value(cur).log)
          /\ IsSome(Value(cur).anchorProof) <=> IsSome(ckpt)
          /\ IsSome(ckpt) =>
                Get(Value(cur).anchorProof).blockTimestamp = Get(ckpt).blockTimestamp
    /\ Accepted("anchor") => Value(cur).anchorProof = Some(LastAnchorProof)
    /\ Accepted("signed") =>
          /\ Value(cur).anchorProof = Before.anchorProof
          /\ Value(cur).anchorStatus = "NOT_REQUESTED"

\* A signed commit applied to an ANCHORED state.
C17_Witness ==
    /\ Accepted("signed")
    /\ Before.anchorStatus = "ANCHORED"
    /\ IsSome(Value(cur).anchorProof)

(* --------------------------------- C18 ---------------------------------- *)

HasSignedEntry(log) == \E i \in 1 .. Len(log) : log[i].type = "SIGNED"

\* C18: while the applier alone produces the states, anchorStatus is ANCHORED
\* when the last log entry is an ANCHOR entry and NOT_REQUESTED otherwise,
\* signatureStatus is SIGNED when the log has a SIGNED entry and GENESIS
\* otherwise, and an anchor commit leaves signatureStatus as it was.
C18_StatusesFollowLog ==
    /\ alone /\ cur > 0 =>
          /\ Value(cur).anchorStatus =
                IF LogNow[Len(LogNow)].type = "ANCHOR" THEN "ANCHORED" ELSE "NOT_REQUESTED"
          /\ Value(cur).signature = IF HasSignedEntry(LogNow) THEN "SIGNED" ELSE "GENESIS"
    /\ Accepted("anchor") => Value(cur).signature = Before.signature

\* A signed commit applied after an anchor that followed a signed commit.
C18_Witness ==
    /\ alone
    /\ cur > 0
    /\ Kinds(LogNow) = <<"GENESIS", "SIGNED", "ANCHOR", "SIGNED">>

(* --------------------------------- C19 ---------------------------------- *)

\* C19: while the applier alone produces the states, the fields the timestamp
\* check reads are present where it reads them, and a signed commit whose
\* payload verifies is accepted or rejected as stale or for its controller.
C19_CheckReadsPresentFields ==
    /\ alone /\ cur > 0 =>
          /\ Value(cur).signature # "GENESIS" /\ Value(cur).anchorStatus # "ANCHORED" =>
                /\ IsSome(Value(cur).next)
                /\ IsSome(Get(Value(cur).next).metadata)
                /\ Get(Get(Value(cur).next).metadata).lastUpdate \in Times
          /\ Value(cur).anchorStatus = "ANCHORED" =>
                /\ IsSome(Value(cur).anchorProof)
                /\ Get(Value(cur).anchorProof).blockTimestamp \in Times
    /\ alone /\ LastHasProof => last.outcome \in {OK, ErrTooOld, ErrAddress}

\* A signed commit was checked against the pending lastUpdate and accepted.
C19_Witness ==
    /\ alone
    /\ Accepted("signed")
    /\ Before.signature = "SIGNED"
    /\ Before.anchorStatus = "NOT_REQUESTED"

====
